---- MODULE Spec2Model ----
(***************************************************************************)
(* Model of the health-data unification pipeline:                          *)
(*   load_daily_summary.py   (step de-duplication, daily aggregation,      *)
(*                            daily merge, daily_summaries upsert)         *)
(*   load_workout_details.py (workout and set load)                        *)
(*   run_pipeline.py         (incremental run controller)                  *)
(*                                                                         *)
(* Timestamps are minutes since an epoch; a calendar day is the timestamp  *)
(* divided by MinutesPerDay.  Numeric sample values are fixed-point        *)
(* numbers counted in units of 1/Scale, so that fractional values (0.5)    *)
(* and the truncation of astype(int) are both representable.               *)
(***************************************************************************)
EXTENDS Integers, Sequences, FiniteSets, TLC

VARIABLES
    records,      \* steps_records handed to deduplicate_apple_health_steps
    clean,        \* clean_records returned by it
    stepsDf,      \* aggregate_daily_data(deduplicated_steps, 'TotalSteps')
    fpc,          \* position in the steps computation: input / deduped / aggregated
    energyRecords,\* records_list handed to aggregate_daily_data
    energyDf,     \* its result
    apc,          \* position in the aggregation: input / aggregated
    mApple,       \* the Apple Health export handed to get_unified_daily_summary
    mStrong,      \* the Strong export handed to it
    mMacro,       \* the list of MacroFactor files handed to it
    unified,      \* its result: the merged table, or the exception it raised
    mpc,          \* position in the merge: input / unified
    fs,           \* the export directory: apple, strong, macro (the MacroFactor files)
    clock,        \* the time of the next file modification or NOW()
    daily_summaries,  \* table daily_summaries: date -> the seven metrics
    workouts,         \* table workouts, in insertion order
    workout_details,  \* table workout_details, in insertion order
    pipeline_runs,    \* table pipeline_runs: the recorded run_timestamps
    pc,           \* position of main: idle / daily / workouts / record
    last_run_ts,  \* main's last_run_ts
    nMacro,       \* number of MacroFactor paths in main's file_paths
    run,          \* what the current (or last) run of main did
    pre,          \* the tables as they were when that run started
    fsChanged,    \* a file changed since that run started
    exports,      \* number of export files written so far
    wload,        \* the calls of load_workouts_to_db: arguments, fault, outcome
    dload,        \* the calls of load_data_to_db: argument, fault, outcome
    strongRows,   \* the rows of the strong.csv read by parse_strong_workouts
    processed_rows,   \* the rows it returns, each with its final_rpe
    xpc           \* position of the extraction: input / parsed

stepVars == <<records, clean, stepsDf, fpc>>
aggVars == <<energyRecords, energyDf, apc>>
mergeVars == <<mApple, mStrong, mMacro, unified, mpc>>
dbVars == <<daily_summaries, workouts, workout_details, pipeline_runs>>
pipeVars == <<fs, clock, dbVars, pc, last_run_ts, nMacro, run, pre, fsChanged, exports>>
loadVars == <<wload, dload>>
extractVars == <<strongRows, processed_rows, xpc>>
vars == <<stepVars, aggVars, mergeVars, pipeVars, loadVars, extractVars>>

(***************************************************************************)
(* Bounds of the model.                                                    *)
(***************************************************************************)
MaxLen == 3          \* longest list of step samples
MaxTick == 2         \* grid timestamps are 0, 1/2 day, ..., MaxTick/2 days
MaxEnergyLen == 3    \* longest list of energy records
Scale == 2           \* fixed-point resolution: one unit is 1/Scale
MaxDay == 1          \* the exports of the merge hold data for the days 0..MaxDay
MaxFiles == 2        \* most MacroFactor files in the export directory
MaxExports == 1      \* most export files written after the initial ones
MaxWorkouts == 2     \* most workouts in the first Apple Health export of a load
MaxSets == 2         \* most sets in a Strong export (before the user logs one more)
MaxRuns == 2         \* most rows of pipeline_runs

MinutesPerDay == 1440
MinTimestamp == 0 - 1    \* pd.Timestamp.min: precedes every real timestamp
BadDate == 0 - 2         \* a Date cell whose text pd.to_datetime cannot parse

(***************************************************************************)
(* Generic helpers.                                                        *)
(***************************************************************************)
Range(s) == {s[i] : i \in 1..Len(s)}

SetMin(S) == CHOOSE x \in S : \A y \in S : x <= y
SetMax(S) == CHOOSE x \in S : \A y \in S : x >= y

RECURSIVE SumSeq(_)
SumSeq(s) == IF s = <<>> THEN 0 ELSE Head(s) + SumSeq(Tail(s))

RECURSIVE SeqsUpTo(_, _)
SeqsUpTo(S, n) ==
    IF n = 0 THEN {<<>>}
    ELSE LET shorter == SeqsUpTo(S, n - 1)
         IN shorter \cup {Append(s, x) : s \in {t \in shorter : Len(t) = n - 1}, x \in S}

(***************************************************************************)
(* Raw values as they come out of the XML: text that is a number, or not.  *)
(***************************************************************************)
Numeric(n) == [isNum |-> TRUE, n |-> n]
NonNumeric == [isNum |-> FALSE, n |-> 0]
Whole(k) == Numeric(k * Scale)

\* pd.to_datetime(...).dt.tz_localize(None) followed by the daily bucket
DayOf(ts) == ts \div MinutesPerDay

\* Series.astype(int): truncation toward zero of a fixed-point number
TruncToInt(x) == IF x >= 0 THEN x \div Scale ELSE 0 - ((0 - x) \div Scale)

(***************************************************************************)
(* DataFrames: an ordered list of column names and an ordered list of      *)
(* rows; a row is a function from column names to numbers, and a NaN cell  *)
(* is a column missing from the row's domain.                              *)
(***************************************************************************)
EmptyFrame == [cols |-> <<>>, rows |-> <<>>]
IsEmpty(df) == df.cols = <<>> \/ df.rows = <<>>

(***************************************************************************)
(* deduplicate_apple_health_steps                                          *)
(***************************************************************************)
WatchSources == {"Apple Watch"}
SourceNames == {"Apple Watch", "iPhone"}

Priority(sourceName) == IF sourceName \in WatchSources THEN 1 ELSE 2

KeyLEStartOnly(a, b) == a.startDate <= b.startDate

\* the sort key of sort_values(by=['startDate', 'priority'])
KeyLE(a, b) ==
    \/ a.startDate < b.startDate
    \/ a.startDate = b.startDate /\ Priority(a.sourceName) <= Priority(b.sourceName)

RECURSIVE InsertByKey(_, _)
InsertByKey(r, s) ==
    IF s = <<>> THEN <<r>>
    ELSE IF KeyLE(Head(s), r) THEN <<Head(s)>> \o InsertByKey(r, Tail(s))
    ELSE <<r>> \o s

RECURSIVE SortValues(_)
\* stable sort: rows with equal keys keep their input order
SortValues(s) ==
    IF s = <<>> THEN <<>>
    ELSE InsertByKey(s[Len(s)], SortValues(SubSeq(s, 1, Len(s) - 1)))

AcceptsOnEnd(row, last_end_time) == row.endDate >= last_end_time
Accepts(row, last_end_time) == row.startDate >= last_end_time

RECURSIVE Sweep(_, _, _)
Sweep(sorted, last_end_time, clean_records) ==
    IF sorted = <<>> THEN clean_records
    ELSE LET row == Head(sorted)
         IN IF Accepts(row, last_end_time)
            THEN Sweep(Tail(sorted), row.endDate, Append(clean_records, row))
            ELSE Sweep(Tail(sorted), last_end_time, clean_records)

deduplicate_apple_health_steps(recs) ==
    IF recs = <<>> THEN <<>>
    ELSE Sweep(SortValues(recs), MinTimestamp, <<>>)

(***************************************************************************)
(* aggregate_daily_data                                                    *)
(***************************************************************************)
RECURSIVE DaySumByStart(_, _)
\* a variant that buckets a sample by the day of its start
DaySumByStart(recs, d) ==
    IF recs = <<>> THEN 0
    ELSE (IF DayOf(Head(recs).startDate) = d THEN Head(recs).value.n ELSE 0)
         + DaySumByStart(Tail(recs), d)

RECURSIVE DaySum(_, _)
DaySum(recs, d) ==
    IF recs = <<>> THEN 0
    ELSE (IF DayOf(Head(recs).endDate) = d THEN Head(recs).value.n ELSE 0)
         + DaySum(Tail(recs), d)

RECURSIVE DailyRows(_, _, _, _)
\* the resampled days lo..hi in ascending order, filtered and truncated
DailyRows(recs, lo, hi, col) ==
    IF lo > hi THEN <<>>
    ELSE (IF DaySum(recs, lo) > 0
          THEN <<("Date" :> lo) @@ (col :> TruncToInt(DaySum(recs, lo)))>>
          ELSE <<>>)
         \o DailyRows(recs, lo + 1, hi, col)

aggregate_daily_data(records_list, value_col_name) ==
    IF records_list = <<>> THEN EmptyFrame
    ELSE LET kept == SelectSeq(records_list, LAMBDA r : r.value.isNum)
             days == {DayOf(kept[i].endDate) : i \in 1..Len(kept)}
         IN [cols |-> <<"Date", value_col_name>>,
             rows |-> IF days = {} THEN <<>>
                      ELSE DailyRows(kept, SetMin(days), SetMax(days), value_col_name)]

(***************************************************************************)
(* DataFrame operations used by the daily merge.  An operation that can    *)
(* raise returns a result record: raised, the error, and the frame.        *)
(***************************************************************************)
Ok(df) == [raised |-> FALSE, error |-> "", df |-> df]
Raise(e) == [raised |-> TRUE, error |-> e, df |-> EmptyFrame]

HasCol(df, c) == c \in Range(df.cols)
DatesOf(df) == {df.rows[i]["Date"] : i \in 1..Len(df.rows)}
RowsOn(df, d) == SelectSeq(df.rows, LAMBDA r : r["Date"] = d)

RECURSIVE Ascending(_)
\* the elements of a finite set of numbers in ascending order
Ascending(S) ==
    IF S = {} THEN <<>> ELSE <<SetMin(S)>> \o Ascending(S \ {SetMin(S)})

RECURSIVE Descending(_)
Descending(S) ==
    IF S = {} THEN <<>> ELSE <<SetMax(S)>> \o Descending(S \ {SetMax(S)})

RECURSIVE Flatten(_)
Flatten(ss) == IF ss = <<>> THEN <<>> ELSE Head(ss) \o Flatten(Tail(ss))

\* the rows of one key of an outer join: every left row with every right row,
\* a side without rows for the key contributing the key alone (NaN elsewhere)
JoinOn(left, right, d) ==
    LET ls == IF RowsOn(left, d) = <<>> THEN <<("Date" :> d)>> ELSE RowsOn(left, d)
        rs == IF RowsOn(right, d) = <<>> THEN <<("Date" :> d)>> ELSE RowsOn(right, d)
    IN Flatten([i \in 1..Len(ls) |-> [j \in 1..Len(rs) |-> ls[i] @@ rs[j]]])

\* pd.merge(left, right, on='Date', how='outer')
MergeOuter(left, right) ==
    IF ~HasCol(left, "Date") \/ ~HasCol(right, "Date") THEN Raise("KeyError")
    ELSE LET keys == Ascending(DatesOf(left) \cup DatesOf(right))
         IN Ok([cols |-> left.cols \o SelectSeq(right.cols, LAMBDA c : c # "Date"),
                rows |-> Flatten([k \in 1..Len(keys) |-> JoinOn(left, right, keys[k])])])

RECURSIVE UnionCols(_)
UnionCols(frames) ==
    IF frames = <<>> THEN <<>>
    ELSE LET rest == UnionCols(SubSeq(frames, 1, Len(frames) - 1))
             last == frames[Len(frames)].cols
         IN rest \o SelectSeq(last, LAMBDA c : c \notin Range(rest))

\* pd.concat(frames, ignore_index=True)
Concat(frames) ==
    IF frames = <<>> THEN Raise("ValueError")
    ELSE Ok([cols |-> UnionCols(frames),
             rows |-> Flatten([i \in 1..Len(frames) |-> frames[i].rows])])

\* sort_values(by='Date', ascending=False)
SortByDateDesc(df) ==
    IF ~HasCol(df, "Date") THEN Raise("KeyError")
    ELSE LET keys == Descending(DatesOf(df))
         IN Ok([cols |-> df.cols,
                rows |-> Flatten([k \in 1..Len(keys) |-> RowsOn(df, keys[k])])])

\* fillna(0)
FillNa(df) ==
    [cols |-> df.cols,
     rows |-> [i \in 1..Len(df.rows) |->
                 [c \in Range(df.cols) |->
                     IF c \in DOMAIN df.rows[i] THEN df.rows[i][c] ELSE 0]]]

(***************************************************************************)
(* Export files.  A file is [exists, mtime, data]; data is what the        *)
(* parsers read from it.                                                   *)
(***************************************************************************)
NoAppleData == [steps |-> <<>>, energy |-> <<>>, workouts |-> <<>>]

\* parse_apple_health_summary: a missing file raises inside the try and
\* degrades to an empty frame
parse_apple_health_summary(file) ==
    IF ~file.exists THEN EmptyFrame
    ELSE LET steps_df == aggregate_daily_data(
                             deduplicate_apple_health_steps(file.data.steps), "TotalSteps")
             energy_df == aggregate_daily_data(file.data.energy, "ActiveEnergy_kcal")
         IN IF ~IsEmpty(steps_df) /\ ~IsEmpty(energy_df)
            THEN MergeOuter(steps_df, energy_df).df
            ELSE IF ~IsEmpty(steps_df) THEN steps_df ELSE energy_df

NoNote == [present |-> FALSE, entries |-> <<>>]

\* the rows of the Strong log with numeric Weight and Reps
StrongVolumeRows(data) == SelectSeq(data, LAMBDA r : r.weight.isNum /\ r.reps.isNum)

RECURSIVE VolumeOn(_, _)
\* sum of Weight * Reps over the rows of calendar day d, in fixed point
VolumeOn(rows, d) ==
    IF rows = <<>> THEN 0
    ELSE (IF DayOf(Head(rows).date) = d
          THEN (Head(rows).weight.n * Head(rows).reps.n) \div Scale ELSE 0)
         + VolumeOn(Tail(rows), d)

\* pd.to_datetime(df['Date']) raises on a Date it cannot parse
DatesParse(data) == \A i \in 1..Len(data) : data[i].date # BadDate

\* parse_strong_summary: a missing file, or a Date that does not parse, raises
\* inside the try and degrades to an empty frame
parse_strong_summary(file) ==
    IF ~file.exists \/ ~DatesParse(file.data) THEN EmptyFrame
    ELSE LET rows == StrongVolumeRows(file.data)
             days == Ascending({DayOf(rows[i].date) : i \in 1..Len(rows)})
         IN [cols |-> <<"Date", "StrengthVolume">>,
             rows |-> [k \in 1..Len(days) |->
                         ("Date" :> days[k])
                         @@ ("StrengthVolume" :> TruncToInt(VolumeOn(rows, days[k])))]]

MacroColumns == <<"Date", "Calories_kcal", "Protein_g", "Fat_g", "Carbs_g">>

\* parse_macrofactor_summary: rows whose Date did not parse are dropped
parse_macrofactor_summary(file) ==
    IF ~file.exists THEN EmptyFrame
    ELSE [cols |-> MacroColumns,
          rows |-> SelectSeq(file.data, LAMBDA r : "Date" \in DOMAIN r)]

\* the merge of get_unified_daily_summary: the first table is copied, the
\* second and the third are joined to it unless empty, then sort and fillna
MergeTables(first, second, third) ==
    LET m1 == IF ~IsEmpty(second) THEN MergeOuter(first, second) ELSE Ok(first)
        m2 == IF m1.raised THEN m1
              ELSE IF ~IsEmpty(third) THEN MergeOuter(m1.df, third) ELSE m1
        sorted == IF m2.raised THEN m2 ELSE SortByDateDesc(m2.df)
    IN IF sorted.raised THEN sorted ELSE Ok(FillNa(sorted.df))

get_unified_daily_summary(apple, strong, macrofactor_files) ==
    LET apple_summary == parse_apple_health_summary(apple)
        strong_summary == parse_strong_summary(strong)
        macrofactor_summaries ==
            [i \in 1..Len(macrofactor_files) |->
                parse_macrofactor_summary(macrofactor_files[i])]
        all_macrofactor_data == Concat(macrofactor_summaries)
    IN IF all_macrofactor_data.raised THEN all_macrofactor_data
       ELSE MergeTables(apple_summary, all_macrofactor_data.df, strong_summary)

(***************************************************************************)
(* load_data_to_db: one INSERT ... ON CONFLICT (date) DO UPDATE of all     *)
(* rows, committed as a whole.  Any error is caught and printed; nothing   *)
(* is committed then.                                                      *)
(***************************************************************************)
\* the metric columns of the upsert, in the order of its column list
MetricColumns == <<"TotalSteps", "ActiveEnergy_kcal", "Calories_kcal", "Protein_g",
                   "Fat_g", "Carbs_g", "StrengthVolume">>

NoRows == [d \in {} |-> 0]

\* the statement is rejected when a row has fewer values than the eight target
\* columns, or when two rows of the one statement have the same date
UpsertAccepted(df) ==
    /\ Len(df.cols) = Len(MetricColumns) + 1
    /\ \A i, j \in 1..Len(df.rows) : df.rows[i]["Date"] = df.rows[j]["Date"] => i = j

\* a variant that adds the new values to the ones the row holds
UpsertAdding(table, df) ==
    [d \in DOMAIN table \cup DatesOf(df) |->
        IF d \in DatesOf(df)
        THEN [c \in Range(MetricColumns) |->
                 RowsOn(df, d)[1][c] + (IF d \in DOMAIN table THEN table[d][c] ELSE 0)]
        ELSE table[d]]

UpsertRows(table, df) ==
    [d \in DOMAIN table \cup DatesOf(df) |->
        IF d \in DatesOf(df)
        THEN LET r == RowsOn(df, d)[1]
             IN [c \in Range(MetricColumns) |-> r[c]]
        ELSE table[d]]

load_data_to_db(table, df, connected) ==
    IF connected /\ UpsertAccepted(df)
    THEN [error |-> FALSE, table |-> UpsertRows(table, df)]
    ELSE [error |-> TRUE, table |-> table]

(***************************************************************************)
(* load_workout_details.py                                                 *)
(***************************************************************************)
StrengthType == "TraditionalStrengthTraining"

\* parse_apple_health_workouts: float(None) on a Workout element without a
\* duration raises, and the except branch returns no workout at all
parse_apple_health_workouts(file) ==
    IF ~file.exists THEN <<>>
    ELSE IF \E i \in 1..Len(file.data.workouts) : ~file.data.workouts[i].duration.isNum
         THEN <<>>
         ELSE [i \in 1..Len(file.data.workouts) |->
                 LET w == file.data.workouts[i]
                 IN [start_date |-> w.start_date, end_date |-> w.end_date,
                     workout_type |-> w.workout_type, duration_mins |-> w.duration.n,
                     total_distance |-> w.total_distance,
                     total_energy_burned |-> w.total_energy_burned]]

\* a variant that reads the note of the row itself
OwnNote(data, r) == r.note

\* the note of the (Date, Exercise Name) group of row r: the first note met
GroupNote(data, r) ==
    LET noted == SelectSeq(data, LAMBDA x : /\ x.date = r.date
                                            /\ x.exercise = r.exercise
                                            /\ x.note.present)
    IN IF noted = <<>> THEN NoNote ELSE noted[1].note

\* a variant that takes the entries of every set number
AllEntries(note, n) == note.entries

\* rpe_from_note_dict[set_order]: the last 'Set N RPE = V' entry for N
NoteEntries(note, n) == SelectSeq(note.entries, LAMBDA e : e.set = n)

\* a variant that prefers the note entry to the RPE column
FinalRpeNoteFirst(data, r) ==
    LET es == NoteEntries(GroupNote(data, r), r.set_order)
    IN IF es # <<>> THEN Numeric(es[Len(es)].value)
       ELSE IF r.rpe.isNum /\ r.rpe.n > 0 THEN r.rpe ELSE NonNumeric

FinalRpe(data, r) ==
    IF r.rpe.isNum /\ r.rpe.n > 0 THEN r.rpe
    ELSE LET es == NoteEntries(GroupNote(data, r), r.set_order)
         IN IF es # <<>> THEN Numeric(es[Len(es)].value) ELSE NonNumeric

\* the exercise names of the log, in the order groupby sorts them
ExerciseNames == <<"Bench Press", "Squat">>
ExerciseRank(name) == CHOOSE i \in 1..Len(ExerciseNames) : ExerciseNames[i] = name

RECURSIVE GroupKeys(_)
\* the (Date, Exercise Name) keys of df.groupby, sorted as groupby sorts them
GroupKeys(S) ==
    IF S = {} THEN <<>>
    ELSE LET first == CHOOSE a \in S : \A b \in S :
                         \/ a[1] < b[1]
                         \/ a[1] = b[1] /\ ExerciseRank(a[2]) <= ExerciseRank(b[2])
         IN <<first>> \o GroupKeys(S \ {first})

\* processed_rows: group by group, each row with its final_rpe
parse_strong_workouts(file) ==
    IF ~file.exists \/ ~DatesParse(file.data) THEN <<>>
    ELSE LET keys == GroupKeys({<<file.data[i].date, file.data[i].exercise>> :
                                   i \in 1..Len(file.data)})
             group(k) == SelectSeq(file.data,
                                   LAMBDA r : r.date = keys[k][1] /\ r.exercise = keys[k][2])
         IN Flatten([k \in 1..Len(keys) |->
                        [i \in 1..Len(group(k)) |->
                            LET r == group(k)[i]
                            IN [start_date |-> r.date, exercise |-> r.exercise,
                                set_order |-> r.set_order, weight |-> r.weight,
                                reps |-> r.reps, rpe |-> r.rpe,
                                final_rpe |-> FinalRpe(file.data, r)]]])

\* a variant that inserts every parsed workout without looking it up
InsertAlways(apple_workouts, table) ==
    table \o [i \in 1..Len(apple_workouts) |->
                 [workout_id |-> Len(table) + i] @@ apple_workouts[i]]

RECURSIVE InsertOrRefresh(_, _)
\* a variant that overwrites a known session with the parsed values
InsertOrRefresh(apple_workouts, table) ==
    IF apple_workouts = <<>> THEN table
    ELSE LET w == Head(apple_workouts)
             same(r) == r.start_date = w.start_date /\ r.workout_type = w.workout_type
         IN InsertOrRefresh(Tail(apple_workouts),
                IF \E i \in 1..Len(table) : same(table[i])
                THEN [i \in 1..Len(table) |->
                         IF same(table[i]) THEN [workout_id |-> table[i].workout_id] @@ w
                         ELSE table[i]]
                ELSE Append(table, [workout_id |-> Len(table) + 1] @@ w))

\* a variant that looks every parsed workout up in the table as it was when
\* the call started
InsertUnseen(apple_workouts, table) ==
    LET unseen == SelectSeq(apple_workouts,
                            LAMBDA w : ~\E i \in 1..Len(table) :
                                          /\ table[i].start_date = w.start_date
                                          /\ table[i].workout_type = w.workout_type)
    IN table \o [i \in 1..Len(unseen) |-> [workout_id |-> Len(table) + i] @@ unseen[i]]

RECURSIVE InsertWorkouts(_, _)
\* a workout is inserted when no row has its (start_date, workout_type)
InsertWorkouts(apple_workouts, table) ==
    IF apple_workouts = <<>> THEN table
    ELSE LET w == Head(apple_workouts)
             known == \E i \in 1..Len(table) :
                         /\ table[i].start_date = w.start_date
                         /\ table[i].workout_type = w.workout_type
         IN InsertWorkouts(Tail(apple_workouts),
                           IF known THEN table
                           ELSE Append(table, [workout_id |-> Len(table) + 1] @@ w))

\* a variant that inserts the set without the UPDATE
InsertSet(details, workout_id, s) ==
    Append(details, [workout_id |-> workout_id, exercise_name |-> s.exercise,
                     set_order |-> s.set_order, weight |-> s.weight,
                     reps |-> s.reps, rpe |-> s.final_rpe])

\* UPDATE by (workout_id, exercise_name, set_order); INSERT when no row matched
UpsertSet(details, workout_id, s) ==
    LET match(r) == /\ r.workout_id = workout_id
                    /\ r.exercise_name = s.exercise
                    /\ r.set_order = s.set_order
    IN IF \E i \in 1..Len(details) : match(details[i])
       THEN [i \in 1..Len(details) |->
                IF match(details[i])
                THEN [details[i] EXCEPT !.weight = s.weight, !.reps = s.reps,
                                        !.rpe = s.final_rpe]
                ELSE details[i]]
       ELSE Append(details, [workout_id |-> workout_id, exercise_name |-> s.exercise,
                             set_order |-> s.set_order, weight |-> s.weight,
                             reps |-> s.reps, rpe |-> s.final_rpe])

\* a variant that replaces the sets of the session by the parsed ones
ReplaceSets(details, workout_id, sets) ==
    SelectSeq(details, LAMBDA r : r.workout_id # workout_id)
    \o [i \in 1..Len(sets) |->
           [workout_id |-> workout_id, exercise_name |-> sets[i].exercise,
            set_order |-> sets[i].set_order, weight |-> sets[i].weight,
            reps |-> sets[i].reps, rpe |-> sets[i].final_rpe]]

RECURSIVE UpsertSets(_, _, _)
UpsertSets(details, workout_id, sets) ==
    IF sets = <<>> THEN details
    ELSE UpsertSets(UpsertSet(details, workout_id, Head(sets)), workout_id, Tail(sets))

\* the workout_id of the strength session that starts at workout_date, 0 if none
SessionAt(table, workout_date) ==
    LET ids == {table[i].workout_id : i \in {k \in 1..Len(table) :
                    /\ table[k].start_date = workout_date
                    /\ table[k].workout_type = StrengthType}}
    IN IF ids = {} THEN 0 ELSE SetMin(ids)

RECURSIVE LoadStrongSessions(_, _, _, _)
\* for workout_date, sets in strong_df.groupby('start_date')
LoadStrongSessions(dates, strong_df, table, details) ==
    IF dates = <<>> THEN details
    ELSE LET workout_date == Head(dates)
             sets == SelectSeq(strong_df, LAMBDA s : s.start_date = workout_date)
             workout_id == SessionAt(table, workout_date)
         IN LoadStrongSessions(Tail(dates), strong_df, table,
                IF workout_id = 0 THEN details ELSE UpsertSets(details, workout_id, sets))

\* the dates of strong_df.groupby('start_date'), ascending
GroupDates(strong_df) == Ascending({strong_df[i].start_date : i \in 1..Len(strong_df)})

\* the sets in the order the loop meets them: group by group, file order within
OrderedSets(strong_df) ==
    LET dates == GroupDates(strong_df)
    IN Flatten([k \in 1..Len(dates) |->
                   SelectSeq(strong_df, LAMBDA s : s.start_date = dates[k])])

\* the statement that raises in a call: none, psycopg2.connect, the statements
\* of the k-th Apple Health workout, those of the k-th set, or conn.commit()
LoadFaults(apple_workouts, strong_df) ==
    {[at |-> a, k |-> 0] : a \in {"none", "connect", "commit"}}
    \cup {[at |-> "workout", k |-> k] : k \in 1..Len(apple_workouts)}
    \cup {[at |-> "set", k |-> k] : k \in 1..Len(strong_df)}

\* a variant that keeps what the statements wrote before the exception
KeepWritten(committed, written) == written

\* the exception skips conn.commit(); conn.close() in the finally block
\* discards what the statements of the call wrote
Rollback(committed, written) == committed

\* load_workouts_to_db with the statement at `fault` raising: the tables the
\* call leaves behind, and whether the except branch was taken
LoadWorkouts(table, details, apple_workouts, strong_df, fault) ==
    LET before == [workouts |-> table, details |-> details]
        ordered == OrderedSets(strong_df)
        failed(written) == [error |-> TRUE] @@ Rollback(before, written)
    IN IF fault.at = "connect" THEN [error |-> TRUE] @@ before
       ELSE IF fault.at = "workout"
       THEN failed([workouts |-> InsertWorkouts(SubSeq(apple_workouts, 1, fault.k - 1), table),
                    details |-> details])
       ELSE LET loaded == InsertWorkouts(apple_workouts, table)
                all == [workouts |-> loaded,
                        details |-> LoadStrongSessions(GroupDates(strong_df), strong_df,
                                                       loaded, details)]
            IN IF fault.at = "set" /\ SessionAt(loaded, ordered[fault.k].start_date) # 0
               THEN LET done == SubSeq(ordered, 1, fault.k - 1)
                    IN failed([workouts |-> loaded,
                               details |-> LoadStrongSessions(GroupDates(done), done,
                                                              loaded, details)])
               ELSE IF fault.at = "commit" THEN failed(all)
               ELSE [error |-> FALSE] @@ all

load_workouts_to_db(table, details, apple_workouts, strong_df, connected) ==
    LoadWorkouts(table, details, apple_workouts, strong_df,
                 [at |-> IF connected THEN "none" ELSE "connect", k |-> 0])

(***************************************************************************)
(* run_pipeline.py                                                         *)
(***************************************************************************)
\* a variant that returns the greatest run_timestamp also when the query fails
LastRunDespiteError(runs, connected) ==
    IF runs # <<>> THEN SetMax(Range(runs)) ELSE 0

\* get_last_run_timestamp: the greatest run_timestamp, 0 when the table is
\* empty or the query fails
get_last_run_timestamp(runs, connected) ==
    IF connected /\ runs # <<>> THEN SetMax(Range(runs)) ELSE 0

NewerThan(file, ts) == file.exists /\ file.mtime > ts

\* find_new_files: has_new_files
find_new_files(dir, last_run_timestamp) ==
    \/ NewerThan(dir.strong, last_run_timestamp)
    \/ NewerThan(dir.apple, last_run_timestamp)
    \/ \E i \in 1..Len(dir.macro) : NewerThan(dir.macro[i], last_run_timestamp)

(***************************************************************************)
(* Inputs of the pure-function specifications.                             *)
(***************************************************************************)
GridTimes == {i * (MinutesPerDay \div 2) : i \in 0..MaxTick}

\* two phone samples: one of the morning of day 0 whose value is not a number,
\* one of 1.5 steps from noon of day 0 to midnight
OddSamples ==
    {[startDate |-> 0, endDate |-> MinutesPerDay \div 2, value |-> NonNumeric,
      sourceName |-> "iPhone"],
     [startDate |-> MinutesPerDay \div 2, endDate |-> MinutesPerDay,
      value |-> Numeric(Scale + 1), sourceName |-> "iPhone"]}

StepSamples ==
    {r \in [startDate : GridTimes, endDate : GridTimes,
             value : {Whole(10)}, sourceName : SourceNames] : r.startDate <= r.endDate}
    \cup OddSamples

\* 10:00-10:05 phone 50, 10:02-10:08 watch 80
ScenarioPhone == [startDate |-> 600, endDate |-> 605, value |-> Whole(50), sourceName |-> "iPhone"]
ScenarioWatch == [startDate |-> 602, endDate |-> 608, value |-> Whole(80), sourceName |-> "Apple Watch"]
ScenarioInput == <<ScenarioPhone, ScenarioWatch>>

EnergyValues == {NonNumeric} \cup {Numeric(n) : n \in (0 - 1)..(Scale + 1)}
EnergySamples == {[endDate |-> e, value |-> v] : e \in GridTimes, v \in EnergyValues}

Days == 0..MaxDay

\* one watch sample of 100 + d steps ending on day d, one energy record, one
\* nutrition row and one logged set per day: the values differ by day and column
StepOn(d) == [startDate |-> d * MinutesPerDay + 600, endDate |-> d * MinutesPerDay + 605,
              value |-> Whole(100 + d), sourceName |-> "Apple Watch"]
EnergyOn(d) == [endDate |-> d * MinutesPerDay + 605, value |-> Whole(50 + d)]
MacroRowOn(d) == [Date |-> d, Calories_kcal |-> 2000 + d, Protein_g |-> 150 + d,
                  Fat_g |-> 70 + d, Carbs_g |-> 250 + d]
SetOn(d) == [date |-> d * MinutesPerDay + 600, exercise |-> "Squat", set_order |-> 1,
             weight |-> Whole(60 + d), reps |-> Whole(5), rpe |-> NonNumeric, note |-> NoNote]

File(data) == [exists |-> TRUE, data |-> data]
NoFile(data) == [exists |-> FALSE, data |-> data]

AppleFiles ==
    {NoFile(NoAppleData)} \cup
    {File([steps |-> s, energy |-> e, workouts |-> <<>>]) :
        s \in {<<>>} \cup {<<StepOn(d)>> : d \in Days},
        e \in {<<>>} \cup {<<EnergyOn(d)>> : d \in Days}}
\* a Strong log whose second row has a Date that does not parse
DamagedStrongLog == <<SetOn(0), [SetOn(MaxDay) EXCEPT !.date = BadDate]>>
StrongFiles == {NoFile(<<>>), File(DamagedStrongLog)} \cup {File(<<SetOn(d)>>) : d \in Days}
MacroFiles == {File(<<>>)} \cup {File(<<MacroRowOn(d)>>) : d \in Days}

\* a strength session logged by the watch on day d
WorkoutOn(d) == [start_date |-> d * MinutesPerDay + 600, end_date |-> d * MinutesPerDay + 660,
                 workout_type |-> StrengthType, duration |-> Numeric(60),
                 total_distance |-> 0, total_energy_burned |-> 300 + d]

\* the exports the pipeline runs on: a first export of day 0, a later export
\* of the days 0 and 1, an Apple export without energy records or workouts, and
\* one whose only record is an energy record of 0 kcal
FirstAppleData ==
    [steps |-> <<StepOn(0)>>, energy |-> <<EnergyOn(0)>>, workouts |-> <<WorkoutOn(0)>>]
PipeAppleData ==
    {FirstAppleData,
     [steps |-> <<StepOn(0), StepOn(1)>>, energy |-> <<EnergyOn(0), EnergyOn(1)>>,
      workouts |-> <<WorkoutOn(0), WorkoutOn(1)>>],
     [steps |-> <<StepOn(0)>>, energy |-> <<>>, workouts |-> <<>>],
     [steps |-> <<>>, energy |-> <<[endDate |-> 605, value |-> Whole(0)]>>,
      workouts |-> <<>>]}
PipeStrongData == {<<SetOn(0)>>, <<SetOn(0), SetOn(1)>>}
PipeMacroData == {<<MacroRowOn(0)>>, <<MacroRowOn(1)>>}

FileAt(data, mtime) == [exists |-> TRUE, mtime |-> mtime, data |-> data]
Absent(data) == [exists |-> FALSE, mtime |-> 0, data |-> data]

\* the record of a run: whether find_new_files found new files; the
\* sub-pipelines invoked; whether a database fault was injected (dbFault) and
\* whether a sub-pipeline's write failed (writeFailed); how the run ended; whether
\* the watermark query succeeded and a watermark was appended; the categories
\* missing at the start; and, of the run before it: whether the files are
\* unchanged since it started, its outcome, its watermark, whether its query
\* succeeded, whether it met a fault or an interrupt, and whether it found new
\* files; lateChange: a file was written after both sub-pipelines had read the
\* exports and before record_successful_run
NoRun == [found |-> FALSE, invoked |-> {}, dbFault |-> FALSE, writeFailed |-> FALSE,
          outcome |-> "none", readOk |-> TRUE, recorded |-> FALSE, missing |-> {},
          sameFiles |-> FALSE, prevOutcome |-> "none", prevTs |-> 0, prevReadOk |-> TRUE,
          prevFault |-> FALSE, prevFound |-> FALSE, lateChange |-> FALSE]

Tables == [daily_summaries |-> daily_summaries, workouts |-> workouts,
           workout_details |-> workout_details, pipeline_runs |-> pipeline_runs]

PipeIdle ==
    /\ fs = [apple |-> Absent(NoAppleData), strong |-> Absent(<<>>), macro |-> <<>>]
    /\ clock = 0
    /\ daily_summaries = NoRows /\ workouts = <<>> /\ workout_details = <<>>
    /\ pipeline_runs = <<>>
    /\ pc = "off" /\ last_run_ts = 0 /\ nMacro = 0
    /\ run = NoRun
    /\ pre = [daily_summaries |-> NoRows, workouts |-> <<>>, workout_details |-> <<>>,
              pipeline_runs |-> <<>>]
    /\ fsChanged = FALSE
    /\ exports = 0

StepsIdle == records = <<>> /\ clean = <<>> /\ stepsDf = EmptyFrame /\ fpc = "off"
AggIdle == energyRecords = <<>> /\ energyDf = EmptyFrame /\ apc = "off"
MergeIdle ==
    /\ mApple = NoFile(NoAppleData) /\ mStrong = NoFile(<<>>) /\ mMacro = <<>>
    /\ unified = Ok(EmptyFrame) /\ mpc = "off"

\* no call of a loader yet
NoFault == [at |-> "none", k |-> 0]
NoWorkoutLoad == [active |-> FALSE, appleData |-> <<>>, strongData |-> <<>>, calls |-> 0,
                  apple |-> <<>>, strong |-> <<>>, fault |-> NoFault, error |-> FALSE,
                  prevApple |-> <<>>, prevStrong |-> <<>>, prevError |-> FALSE]
NoDailyLoad == [active |-> FALSE, calls |-> 0, df |-> EmptyFrame, connected |-> TRUE,
                error |-> FALSE, prevError |-> FALSE]
LoadIdle == wload = NoWorkoutLoad /\ dload = NoDailyLoad
ExtractIdle == strongRows = <<>> /\ processed_rows = <<>> /\ xpc = "off"

(***************************************************************************)
(* Specification SpecSteps: the step branch of parse_apple_health_summary. *)
(***************************************************************************)
InitSteps ==
    /\ records \in SeqsUpTo(StepSamples, MaxLen) \cup {ScenarioInput}
    /\ clean = <<>>
    /\ stepsDf = EmptyFrame
    /\ fpc = "input"
    /\ AggIdle
    /\ MergeIdle
    /\ PipeIdle
    /\ LoadIdle
    /\ ExtractIdle

Deduplicate ==
    /\ fpc = "input"
    /\ clean' = deduplicate_apple_health_steps(records)
    /\ fpc' = "deduped"
    /\ UNCHANGED <<records, stepsDf, aggVars, mergeVars, pipeVars, loadVars, extractVars>>

AggregateSteps ==
    /\ fpc = "deduped"
    /\ stepsDf' = aggregate_daily_data(clean, "TotalSteps")
    /\ fpc' = "aggregated"
    /\ UNCHANGED <<records, clean, aggVars, mergeVars, pipeVars, loadVars, extractVars>>

NextSteps == Deduplicate \/ AggregateSteps

SpecSteps == InitSteps /\ [][NextSteps]_vars

(***************************************************************************)
(* Specification SpecAggregate: aggregate_daily_data on energy records.    *)
(***************************************************************************)
InitAggregate ==
    /\ energyRecords \in SeqsUpTo(EnergySamples, MaxEnergyLen)
    /\ energyDf = EmptyFrame
    /\ apc = "input"
    /\ StepsIdle
    /\ MergeIdle
    /\ PipeIdle
    /\ LoadIdle
    /\ ExtractIdle

AggregateEnergy ==
    /\ apc = "input"
    /\ energyDf' = aggregate_daily_data(energyRecords, "ActiveEnergy_kcal")
    /\ apc' = "aggregated"
    /\ UNCHANGED <<energyRecords, stepVars, mergeVars, pipeVars, loadVars, extractVars>>

NextAggregate == AggregateEnergy

SpecAggregate == InitAggregate /\ [][NextAggregate]_vars

(***************************************************************************)
(* Specification SpecMerge: get_unified_daily_summary on one set of files. *)
(***************************************************************************)
InitMerge ==
    /\ mApple \in AppleFiles
    /\ mStrong \in StrongFiles
    /\ mMacro \in SeqsUpTo(MacroFiles, MaxFiles)
    /\ unified = Ok(EmptyFrame)
    /\ mpc = "input"
    /\ StepsIdle
    /\ AggIdle
    /\ PipeIdle
    /\ LoadIdle
    /\ ExtractIdle

Unify ==
    /\ mpc = "input"
    /\ unified' = get_unified_daily_summary(mApple, mStrong, mMacro)
    /\ mpc' = "unified"
    /\ UNCHANGED <<mApple, mStrong, mMacro, stepVars, aggVars, pipeVars, loadVars, extractVars>>

NextMerge == Unify

SpecMerge == InitMerge /\ [][NextMerge]_vars

(***************************************************************************)
(* Specification SpecExtract: parse_strong_workouts on a Strong log whose  *)
(* sets carry RPE values and notes.                                        *)
(***************************************************************************)
\* the RPE column of a set: empty, 0, negative, 8
RpeValues == {NonNumeric, Whole(0), Whole(0 - 1), Whole(8)}

\* the Notes column of a set: empty, 'Set 2 RPE = 7.5', and
\* 'Set 1 RPE = 7, Set 1 RPE = 9, Set 2 RPE = 0'
NoteOf(entries) == [present |-> TRUE, entries |-> entries]
NoteValues ==
    {NoNote,
     NoteOf(<<[set |-> 2, value |-> 15]>>),
     NoteOf(<<[set |-> 1, value |-> 14], [set |-> 1, value |-> 18], [set |-> 2, value |-> 0]>>)}

ExtractSets ==
    {[SetOn(0) EXCEPT !.exercise = x, !.set_order = n, !.rpe = v, !.note = t] :
        x \in Range(ExerciseNames), n \in 1..2, v \in RpeValues, t \in NoteValues}

InitExtract ==
    /\ strongRows \in SeqsUpTo(ExtractSets, MaxSets)
    /\ processed_rows = <<>>
    /\ xpc = "input"
    /\ StepsIdle /\ AggIdle /\ MergeIdle /\ PipeIdle /\ LoadIdle

Extract ==
    /\ xpc = "input"
    /\ processed_rows' = parse_strong_workouts(File(strongRows))
    /\ xpc' = "parsed"
    /\ UNCHANGED <<strongRows, stepVars, aggVars, mergeVars, pipeVars, loadVars>>

NextExtract == Extract

SpecExtract == InitExtract /\ [][NextExtract]_vars

(***************************************************************************)
(* Specification SpecLoad: calls of one of the two loaders on parsed data. *)
(* load_workouts_to_db is called, the user logs one more workout or set,   *)
(* and it is called again; load_data_to_db is called twice on one merged   *)
(* table.  Any statement of a call may raise.                              *)
(***************************************************************************)
\* the workouts of the Apple Health export: the session of day 0, the same
\* session with other duration, end and energy, and a run that starts with it
LongerWorkout == [WorkoutOn(0) EXCEPT !.end_date = @ + 15, !.duration = Numeric(75),
                                      !.total_energy_burned = 400]
LoadWorkoutData == {WorkoutOn(0), LongerWorkout, [WorkoutOn(0) EXCEPT !.workout_type = "Running"]}

\* the sets of the Strong export: set 1 and set 2 of the squat of day 0, set 1
\* with another weight, and set 1 of a session Strong timed a quarter of an
\* hour after the watch
LoadSetData == {SetOn(0), [SetOn(0) EXCEPT !.set_order = 2],
                [SetOn(0) EXCEPT !.weight = Whole(70)],
                [SetOn(0) EXCEPT !.date = @ + 15]}

\* a row the daily sub-pipeline committed before: day 0, other values
EarlierSummary == 0 :> [c \in Range(MetricColumns) |-> 1]

\* the merged tables load_data_to_db is called with
MergedFrames ==
    {u.df : u \in {r \in {get_unified_daily_summary(a, s, m) :
                              a \in AppleFiles, s \in StrongFiles,
                              m \in SeqsUpTo(MacroFiles, MaxFiles)} :
                       ~r.raised /\ ~IsEmpty(r.df)}}

LoadPipeIdle ==
    /\ fs = [apple |-> Absent(NoAppleData), strong |-> Absent(<<>>), macro |-> <<>>]
    /\ clock = 0 /\ pipeline_runs = <<>>
    /\ pc = "off" /\ last_run_ts = 0 /\ nMacro = 0
    /\ run = NoRun
    /\ fsChanged = FALSE
    /\ exports = 0

InitLoad ==
    /\ workouts = <<>> /\ workout_details = <<>>
    /\ \/ /\ wload \in {[NoWorkoutLoad EXCEPT !.active = TRUE, !.appleData = a,
                                               !.strongData = s] :
                             a \in SeqsUpTo(LoadWorkoutData, MaxWorkouts),
                             s \in SeqsUpTo(LoadSetData, MaxSets)}
          /\ dload = NoDailyLoad
          /\ daily_summaries = EarlierSummary
       \/ /\ wload = NoWorkoutLoad
          /\ dload \in {[NoDailyLoad EXCEPT !.active = TRUE, !.df = df] : df \in MergedFrames}
          /\ daily_summaries \in {NoRows, EarlierSummary}
    /\ pre = [daily_summaries |-> daily_summaries, workouts |-> <<>>,
              workout_details |-> <<>>, pipeline_runs |-> <<>>]
    /\ LoadPipeIdle
    /\ StepsIdle /\ AggIdle /\ MergeIdle /\ ExtractIdle

\* load_workouts_to_db(apple_workouts, strong_df) on the parsed exports
CallLoadWorkouts ==
    /\ wload.active
    /\ wload.calls \in {0, 1}
    /\ LET apple_workouts == parse_apple_health_workouts(
                                 File([NoAppleData EXCEPT !.workouts = wload.appleData]))
           strong_df == parse_strong_workouts(File(wload.strongData))
       IN \E fault \in LoadFaults(apple_workouts, strong_df) :
             LET r == LoadWorkouts(workouts, workout_details, apple_workouts, strong_df, fault)
             IN /\ workouts' = r.workouts
                /\ workout_details' = r.details
                /\ wload' = [wload EXCEPT !.calls = @ + 1, !.apple = apple_workouts,
                                          !.strong = strong_df, !.fault = fault,
                                          !.error = r.error, !.prevApple = wload.apple,
                                          !.prevStrong = wload.strong,
                                          !.prevError = wload.error]
    /\ pre' = Tables
    /\ UNCHANGED <<fs, clock, daily_summaries, pipeline_runs, pc, last_run_ts, nMacro, run,
                   fsChanged, exports, dload, stepVars, aggVars, mergeVars, extractVars>>

\* between the calls the user logs one more workout or one more set, or the
\* oldest workout or set is no longer in the export (after a call that
\* committed: a failed call left the tables as a first call finds them)
LogWorkout ==
    /\ wload.active
    /\ wload.calls = 1
    /\ ~wload.error
    /\ wload.apple = parse_apple_health_workouts(
                         File([NoAppleData EXCEPT !.workouts = wload.appleData]))
    /\ wload.strong = parse_strong_workouts(File(wload.strongData))
    /\ \/ \E w \in LoadWorkoutData :
             wload' = [wload EXCEPT !.appleData = Append(@, w)]
       \/ \E s \in LoadSetData :
             wload' = [wload EXCEPT !.strongData = Append(@, s)]
       \/ /\ wload.appleData # <<>>
          /\ wload' = [wload EXCEPT !.appleData = Tail(@)]
       \/ /\ wload.strongData # <<>>
          /\ wload' = [wload EXCEPT !.strongData = Tail(@)]
    /\ UNCHANGED <<pipeVars, stepVars, aggVars, mergeVars, dload, extractVars>>

\* load_data_to_db(df) on a merged table
CallLoadData ==
    /\ dload.active
    /\ dload.calls \in {0, 1}
    /\ \E connected \in BOOLEAN :
          LET r == load_data_to_db(daily_summaries, dload.df, connected)
          IN /\ daily_summaries' = r.table
             /\ dload' = [dload EXCEPT !.calls = @ + 1, !.connected = connected,
                                       !.error = r.error, !.prevError = dload.error]
    /\ pre' = Tables
    /\ UNCHANGED <<fs, clock, workouts, workout_details, pipeline_runs, pc, last_run_ts,
                   nMacro, run, fsChanged, exports, wload, stepVars, aggVars, mergeVars,
                   extractVars>>

NextLoad == CallLoadWorkouts \/ LogWorkout \/ CallLoadData

SpecLoad == InitLoad /\ [][NextLoad]_vars

(***************************************************************************)
(* Specification Spec: runs of main over an export directory that the user *)
(* keeps writing to.  The export directory starts with any of the first    *)
(* exports present (written at time 1) and the tables empty.               *)
(***************************************************************************)
DbOutcomes == {"ok", "query_error", "connect_error"}

MissingCategories(dir) ==
    {c \in {"apple", "strong"} : ~dir[c].exists} \cup (IF dir.macro = <<>> THEN {"macro"} ELSE {})

Init ==
    /\ fs \in [apple : {Absent(NoAppleData), FileAt(FirstAppleData, 1)},
               strong : {Absent(<<>>), FileAt(<<SetOn(0)>>, 1)},
               macro : {<<>>, <<FileAt(<<>>, 1)>>, <<FileAt(<<MacroRowOn(0)>>, 1)>>}]
    /\ clock = 2
    /\ daily_summaries = NoRows /\ workouts = <<>> /\ workout_details = <<>>
    /\ pipeline_runs = <<>>
    /\ pc = "idle" /\ last_run_ts = 0 /\ nMacro = 0
    /\ run = NoRun
    /\ pre = [daily_summaries |-> NoRows, workouts |-> <<>>, workout_details |-> <<>>,
              pipeline_runs |-> <<>>]
    /\ fsChanged = FALSE
    /\ exports = 0
    /\ StepsIdle /\ AggIdle /\ MergeIdle /\ LoadIdle
    /\ ExtractIdle

\* the user writes an export file: a new Apple Health or Strong export, a
\* changed MacroFactor file, or one more MacroFactor file
Export ==
    /\ exports < MaxExports
    /\ exports' = exports + 1
    /\ \/ \E d \in PipeAppleData : fs' = [fs EXCEPT !.apple = FileAt(d, clock)]
       \/ \E d \in PipeStrongData : fs' = [fs EXCEPT !.strong = FileAt(d, clock)]
       \/ \E d \in PipeMacroData, i \in 1..Len(fs.macro) :
             fs' = [fs EXCEPT !.macro[i] = FileAt(d, clock)]
       \/ \E d \in PipeMacroData :
             /\ Len(fs.macro) < MaxFiles
             /\ fs' = [fs EXCEPT !.macro = Append(@, FileAt(d, clock))]
    /\ clock' = clock + 1
    /\ fsChanged' = TRUE
    /\ run' = [run EXCEPT !.sameFiles = FALSE, !.lateChange = @ \/ pc = "record"]
    /\ UNCHANGED <<dbVars, pc, last_run_ts, nMacro, pre, stepVars, aggVars, mergeVars, loadVars, extractVars>>

\* main, steps 1 and 2: get_last_run_timestamp and find_new_files.  The
\* connection is opened outside the try: a failed connect raises out of main;
\* a failed query is caught and reads as 0.
Start ==
    /\ pc = "idle"
    /\ Len(pipeline_runs) < MaxRuns
    /\ \E db \in DbOutcomes :
          LET ts == get_last_run_timestamp(pipeline_runs, db = "ok")
              found == db # "connect_error" /\ find_new_files(fs, ts)
          IN /\ last_run_ts' = IF db = "connect_error" THEN last_run_ts ELSE ts
             /\ nMacro' = IF found THEN Len(fs.macro) ELSE 0
             /\ pc' = IF found THEN "daily" ELSE "idle"
             /\ run' = [found |-> found, invoked |-> {}, dbFault |-> db # "ok",
                        writeFailed |-> FALSE,
                        outcome |-> IF db = "connect_error" THEN "raised"
                                    ELSE IF found THEN "running" ELSE "uptodate",
                        readOk |-> db = "ok", recorded |-> FALSE,
                        missing |-> MissingCategories(fs),
                        sameFiles |-> run.outcome # "none" /\ ~fsChanged,
                        prevOutcome |-> run.outcome, prevTs |-> last_run_ts,
                        prevReadOk |-> run.readOk,
                        prevFault |-> run.dbFault \/ run.outcome = "interrupted",
                        prevFound |-> run.found, lateChange |-> FALSE]
    /\ pre' = Tables
    /\ fsChanged' = FALSE
    /\ UNCHANGED <<fs, clock, dbVars, exports, stepVars, aggVars, mergeVars, loadVars, extractVars>>

\* main: process_and_load_daily_summary
RunDaily ==
    /\ pc = "daily"
    /\ LET res == get_unified_daily_summary(fs.apple, fs.strong, SubSeq(fs.macro, 1, nMacro))
       IN /\ unified' = res
          /\ IF res.raised
             THEN /\ pc' = "idle"
                  /\ run' = [run EXCEPT !.invoked = @ \cup {"daily"}, !.outcome = "raised"]
                  /\ UNCHANGED daily_summaries
             ELSE IF IsEmpty(res.df)
             THEN /\ pc' = "workouts"
                  /\ run' = [run EXCEPT !.invoked = @ \cup {"daily"}]
                  /\ UNCHANGED daily_summaries
             ELSE \E connected \in BOOLEAN :
                    LET r == load_data_to_db(daily_summaries, res.df, connected)
                    IN /\ daily_summaries' = r.table
                       /\ pc' = "workouts"
                       /\ run' = [run EXCEPT !.invoked = @ \cup {"daily"},
                                             !.dbFault = @ \/ ~connected,
                                             !.writeFailed = @ \/ r.error]
    /\ UNCHANGED <<fs, clock, workouts, workout_details, pipeline_runs, last_run_ts, nMacro,
                   pre, fsChanged, exports, stepVars, aggVars, mApple, mStrong, mMacro, mpc, loadVars, extractVars>>

\* main: process_and_load_workout_details
RunWorkouts ==
    /\ pc = "workouts"
    /\ LET apple_workouts == parse_apple_health_workouts(fs.apple)
           strong_workouts_df == parse_strong_workouts(fs.strong)
       IN IF apple_workouts # <<>> \/ strong_workouts_df # <<>>
          THEN \E connected \in BOOLEAN :
                 LET r == load_workouts_to_db(workouts, workout_details, apple_workouts,
                                              strong_workouts_df, connected)
                 IN /\ workouts' = r.workouts
                    /\ workout_details' = r.details
                    /\ run' = [run EXCEPT !.invoked = @ \cup {"workouts"},
                                          !.dbFault = @ \/ ~connected,
                                          !.writeFailed = @ \/ r.error]
          ELSE /\ run' = [run EXCEPT !.invoked = @ \cup {"workouts"}]
               /\ UNCHANGED <<workouts, workout_details>>
    /\ pc' = "record"
    /\ UNCHANGED <<fs, clock, daily_summaries, pipeline_runs, last_run_ts, nMacro, pre,
                   fsChanged, exports, stepVars, aggVars, mergeVars, loadVars, extractVars>>

\* a recorder that appends the watermark whatever the connection does
RecordAlways(runs, now, db) == Append(runs, now)

\* record_successful_run: INSERT ... VALUES (NOW()).  A failed connect raises
\* out of main; a failed insert is caught and printed.
record_successful_run(runs, now, db) == IF db = "ok" THEN Append(runs, now) ELSE runs

\* main, step 4: record_successful_run, then 'Pipeline finished successfully'
RecordRun ==
    /\ pc = "record"
    /\ \E db \in DbOutcomes :
          /\ pipeline_runs' = record_successful_run(pipeline_runs, clock, db)
          /\ run' = [run EXCEPT !.outcome = IF db = "connect_error" THEN "raised" ELSE "success",
                                !.recorded = (db = "ok"),
                                !.dbFault = @ \/ db # "ok"]
          /\ clock' = IF db = "ok" THEN clock + 1 ELSE clock
    /\ pc' = "idle"
    /\ UNCHANGED <<fs, daily_summaries, workouts, workout_details, last_run_ts, nMacro, pre,
                   fsChanged, exports, stepVars, aggVars, mergeVars, loadVars, extractVars>>

\* the process is interrupted (KeyboardInterrupt is no Exception: no handler
\* of the pipeline catches it) before its next step
Interrupt ==
    /\ pc \in {"daily", "workouts", "record"}
    /\ pc' = "idle"
    /\ run' = [run EXCEPT !.outcome = "interrupted"]
    /\ UNCHANGED <<fs, clock, dbVars, last_run_ts, nMacro, pre, fsChanged, exports,
                   stepVars, aggVars, mergeVars, loadVars, extractVars>>

Next == Export \/ Start \/ RunDaily \/ RunWorkouts \/ RecordRun \/ Interrupt

Spec == Init /\ [][Next]_vars

(***************************************************************************)
(* Claims about the step branch (SpecSteps) and the aggregator             *)
(* (SpecAggregate).                                                        *)
(***************************************************************************)
StepsDone == fpc \in {"deduped", "aggregated"}

\* C1: the list returned by deduplicate_apple_health_steps is ordered by start
\* ascending and pairwise non-overlapping: every accepted sample starts at or
\* after the end of every sample accepted before it.
C1_DedupOrderedNonOverlapping ==
    StepsDone =>
        \A i, j \in 1..Len(clean) :
            i < j => /\ clean[i].startDate <= clean[j].startDate
                     /\ clean[j].startDate >= clean[i].endDate

\* C1 witness: an unsorted input with both sources from which the sweep kept
\* at least two samples and discarded at least one.
C1_Witness ==
    /\ fpc = "deduped"
    /\ Len(clean) >= 2
    /\ Len(clean) < Len(records)
    /\ \E i \in 1..(Len(records) - 1) : records[i].startDate > records[i + 1].startDate
    /\ {records[i].sourceName : i \in 1..Len(records)} = SourceNames

\* C2: on the input [(10:00-10:05, phone, 50), (10:02-10:08, watch, 80)] the
\* de-duplication keeps only the watch sample and the day's total is 80.
C2_ScenarioKeepsWatch ==
    (records = ScenarioInput /\ fpc = "aggregated") =>
        /\ clean = <<ScenarioWatch>>
        /\ Len(stepsDf.rows) = 1
        /\ stepsDf.rows[1]["TotalSteps"] = 80

SameStartPair(i, j) ==
    /\ records[i].startDate = records[j].startDate
    /\ Priority(records[i].sourceName) = 1
    /\ Priority(records[j].sourceName) = 2

\* C3 as stated: when the input holds a watch sample and a non-watch sample with
\* the same start time, the output contains the watch sample and not the
\* non-watch one, for every order of the input (zero-duration samples included).
C3_EqualStartWatchWins ==
    StepsDone =>
        \A i, j \in 1..Len(records) :
            SameStartPair(i, j) => /\ records[i] \in Range(clean)
                                   /\ records[j] \notin Range(clean)

\* C3 as amended: when the input holds a watch sample and a non-watch sample with
\* the same start time and the watch sample has start < end, the output does not
\* contain the non-watch sample, for every order of the input; when the two are
\* the whole input, the output is exactly the watch sample.
C3_EqualStartNonWatchDropped ==
    StepsDone =>
        \A i, j \in 1..Len(records) :
            (SameStartPair(i, j) /\ records[i].startDate < records[i].endDate)
            => /\ records[j] \notin Range(clean)
               /\ (Len(records) = 2 => clean = <<records[i]>>)

\* C3 witness: the non-watch sample comes first in the input, the watch sample
\* of the same start lasts longer than an instant and is the one kept.
C3_Witness ==
    /\ fpc = "deduped"
    /\ Len(records) = 2
    /\ SameStartPair(2, 1)
    /\ records[2].startDate < records[2].endDate
    /\ clean = <<records[2]>>

\* C4: no row of the table returned by aggregate_daily_data has a value <= 0.
C4_NoNonPositiveBucket ==
    apc = "aggregated" =>
        \A i \in 1..Len(energyDf.rows) : energyDf.rows[i]["ActiveEnergy_kcal"] > 0

\* C19: a sample is discarded only by an accepted sample of higher or equal
\* priority: for every input sample that is not in the output, the accepted
\* sample that covers its start (the one that set last_end_time) has a priority
\* at least as high, so a watch sample is never discarded by a non-watch one.
C19_DiscardedByHigherPriority ==
    StepsDone =>
        \A i \in 1..Len(records) :
            records[i] \notin Range(clean) =>
                \E k \in 1..Len(clean) :
                    /\ clean[k].startDate <= records[i].startDate
                    /\ records[i].startDate < clean[k].endDate
                    /\ Priority(clean[k].sourceName) <= Priority(records[i].sourceName)

(***************************************************************************)
(* Claims about the daily merge (SpecMerge).                               *)
(***************************************************************************)
\* the three source tables of the merge
ActivityTable == parse_apple_health_summary(mApple)
StrengthTable == parse_strong_summary(mStrong)
NutritionTable ==
    [cols |-> MacroColumns,
     rows |-> Flatten([i \in 1..Len(mMacro) |-> parse_macrofactor_summary(mMacro[i]).rows])]
SourceTables == {ActivityTable, StrengthTable, NutritionTable}

\* the values the source tables hold for metric m on date d
SourceValues(m, d) ==
    {r[m] : r \in {x \in UNION {Range(T.rows) : T \in SourceTables} :
                       x["Date"] = d /\ m \in DOMAIN x}}

\* C5: get_unified_daily_summary returns a row for every date of any of the
\* three source tables, each metric equal to the source's value for the date
\* and 0 where no source has one, for every combination of sources (also when
\* a source has no rows or the list of nutrition files is empty).
C5_FullOuterJoin ==
    mpc = "unified" =>
        /\ ~unified.raised
        /\ \A T \in SourceTables : \A d \in DatesOf(T) : d \in DatesOf(unified.df)
        /\ \A i \in 1..Len(unified.df.rows) :
              LET row == unified.df.rows[i]
              IN \A k \in 1..Len(MetricColumns) :
                    LET m == MetricColumns[k]
                    IN /\ m \in DOMAIN row
                       /\ IF SourceValues(m, row["Date"]) = {}
                          THEN row[m] = 0
                          ELSE row[m] \in SourceValues(m, row["Date"])

(***************************************************************************)
(* Claims about runs of main (Spec).                                       *)
(***************************************************************************)
\* C6: in a run in which a database write of a sub-pipeline failed,
\* record_successful_run is never reached and no watermark is appended.
C6_WriteFailureStopsRun ==
    run.writeFailed => (pc # "record" /\ ~run.recorded)

\* a run that ended with an exception leaving main, or was interrupted
RunFailed == pc = "idle" /\ run.outcome \in {"raised", "interrupted"}

\* a row is appended to pipeline_runs only by record_successful_run, after both
\* sub-pipelines have returned, and it holds the current time
WatermarkOnlyAfterBoth ==
    pipeline_runs' # pipeline_runs =>
        /\ pc = "record"
        /\ run.invoked = {"daily", "workouts"}
        /\ pipeline_runs' = Append(pipeline_runs, clock)

\* the run follows, on unchanged files, a run that found new files and then
\* failed; the watermark queries of both runs succeeded
RetryOfFailedRun ==
    /\ run.prevOutcome \in {"raised", "interrupted"}
    /\ run.prevFound
    /\ run.sameFiles
    /\ run.prevReadOk
    /\ run.readOk

\* C7: a watermark is appended only after both sub-pipelines have returned; a
\* run that ends with an unhandled exception leaves pipeline_runs as it was
\* before the run; and the run after it on the same files reads the same
\* watermark and finds new files again.
C7_WatermarkOnlyAfterSuccess ==
    /\ [][WatermarkOnlyAfterBoth]_vars
    /\ [](RunFailed => pipeline_runs = pre.pipeline_runs)
    /\ [](RetryOfFailedRun => (last_run_ts = run.prevTs /\ run.found))

\* C7 witness: the daily sub-pipeline raised in the run before, pipeline_runs
\* was left alone, and this run on the same files has found them new again.
C7_Witness ==
    /\ pc = "daily"
    /\ unified.raised
    /\ "daily" \notin run.invoked
    /\ RetryOfFailedRun
    /\ run.prevOutcome = "raised"
    /\ pipeline_runs = pre.pipeline_runs
    /\ last_run_ts = run.prevTs
    /\ run.found

\* C8: the run after a run on the same files (no database fault, no interrupt
\* in either) finds no new files, invokes no sub-pipeline, appends no
\* watermark and leaves the tables as they were.
C8_SecondRunNoOp ==
    (run.sameFiles /\ ~run.prevFault /\ ~run.dbFault /\ run.outcome # "interrupted") =>
        /\ ~run.found
        /\ run.invoked = {}
        /\ ~run.recorded
        /\ Tables = pre

\* a finished run that found new files with some but not all source categories
\* missing, without database fault, interrupt or change of the files
PartialRunDone ==
    /\ pc = "idle"
    /\ run.found
    /\ run.missing # {}
    /\ run.missing # {"apple", "strong", "macro"}
    /\ ~run.dbFault
    /\ run.outcome # "interrupted"
    /\ ~fsChanged

\* C9: a run with some but not all source categories missing ends in success
\* with the watermark advanced and the daily rows of the available sources
\* in daily_summaries.
C9_PartialSourcesProceed ==
    PartialRunDone =>
        /\ run.outcome = "success"
        /\ run.recorded
        /\ ~unified.raised
        /\ DatesOf(unified.df) # {}
        /\ DatesOf(unified.df) \subseteq DOMAIN daily_summaries

\* C10: a run that raised or met a database error leaves daily_summaries,
\* workouts, workout_details and pipeline_runs as they were before the run.
C10_FailedRunLeavesState ==
    (pc = "idle" /\ (run.outcome = "raised" \/ run.writeFailed)) => Tables = pre

\* C17: the merged daily table holds exactly one row per calendar date, also
\* when two nutrition files handed to get_unified_daily_summary both hold a row
\* for the same date.
C17_OneRowPerDate ==
    (mpc = "unified" /\ ~unified.raised) =>
        \A i, j \in 1..Len(unified.df.rows) :
            unified.df.rows[i]["Date"] = unified.df.rows[j]["Date"] => i = j

\* the orders in which the three source tables can be joined
JoinOrders ==
    {[k \in 1..3 |-> <<ActivityTable, NutritionTable, StrengthTable>>[p[k]]] :
        p \in {q \in [1..3 -> 1..3] : \A i, j \in 1..3 : q[i] = q[j] => i = j}}

\* C18: the daily merge does not depend on the order of its source tables and
\* is idempotent: joined in any order, the three source tables (empty ones
\* included) give the set of rows get_unified_daily_summary returns, and
\* merging the same inputs again gives the same output.
C18_MergeOrderIndependent ==
    mpc = "unified" =>
        /\ ~unified.raised
        /\ \A o \in JoinOrders :
              LET r == MergeTables(o[1], o[2], o[3])
              IN ~r.raised /\ Range(r.df.rows) = Range(unified.df.rows)
        /\ get_unified_daily_summary(mApple, mStrong, mMacro) = unified

\* an export file that exists has a modification time after the watermark
NewerFileExists ==
    \/ fs.strong.exists /\ fs.strong.mtime > last_run_ts
    \/ fs.apple.exists /\ fs.apple.mtime > last_run_ts
    \/ \E i \in 1..Len(fs.macro) : fs.macro[i].exists /\ fs.macro[i].mtime > last_run_ts

\* C20: find_new_files reports new data exactly when an existing export file
\* is newer than the watermark; a run that found new data invokes both
\* sub-pipelines, with every MacroFactor file; a run that did not invokes none.
\* (Stated of runs that read the watermark, over files unchanged since the start
\* of the run, and of finished runs that were not interrupted.)
C20_CoarseInvalidation ==
    (run.outcome # "none" /\ run.readOk /\ ~fsChanged) =>
        /\ run.found <=> NewerFileExists
        /\ ~run.found => run.invoked = {}
        /\ (run.found /\ pc = "idle" /\ run.outcome # "interrupted") =>
              /\ run.invoked = {"daily", "workouts"}
              /\ nMacro = Len(fs.macro)

(***************************************************************************)
(* Claims about the loaders (SpecLoad).                                    *)
(***************************************************************************)
\* what the last call of load_workouts_to_db writes when no statement raises
FullWorkoutLoad ==
    LoadWorkouts(pre.workouts, pre.workout_details, wload.apple, wload.strong, NoFault)

\* C11: the writes of one loader call are atomic.  After load_workouts_to_db
\* ends, workouts and workout_details hold either every row the call writes or
\* are as before the call (a failure on the k-th statement persists nothing of
\* the call), and daily_summaries, committed earlier, stays; after
\* load_data_to_db ends, daily_summaries holds every row of the merged table or
\* is as before the call.
C11_LoadsAtomic ==
    /\ wload.calls > 0 =>
          /\ daily_summaries = pre.daily_summaries
          /\ IF wload.error
             THEN workouts = pre.workouts /\ workout_details = pre.workout_details
             ELSE /\ workouts = FullWorkoutLoad.workouts
                  /\ workout_details = FullWorkoutLoad.details
    /\ dload.calls > 0 =>
          IF dload.error
          THEN daily_summaries = pre.daily_summaries
          ELSE \A i \in 1..Len(dload.df.rows) :
                  LET row == dload.df.rows[i]
                  IN /\ row["Date"] \in DOMAIN daily_summaries
                     /\ \A c \in Range(MetricColumns) :
                           daily_summaries[row["Date"]][c] = row[c]

\* C11 witness: the statements of the second set raised after the call had
\* inserted a session and the first set; nothing of the call is persisted and
\* the daily row committed earlier is still there.
C11_Witness ==
    /\ wload.calls = 1
    /\ wload.error
    /\ wload.fault = [at |-> "set", k |-> 2]
    /\ FullWorkoutLoad.workouts # <<>>
    /\ Len(FullWorkoutLoad.details) = 2
    /\ workouts = <<>>
    /\ workout_details = <<>>
    /\ daily_summaries = EarlierSummary

(***************************************************************************)
(* Claims about the RPE extraction (SpecExtract).                          *)
(***************************************************************************)
\* the set has an RPE column value that is present and strictly positive
ExplicitRpe(p) == p.rpe.isNum /\ p.rpe.n > 0

\* the note of the exercise group of processed row p: the first note present
\* among the rows of its (date, exercise) in the log; its entries for p's set
GroupEntries(p) ==
    LET noted == SelectSeq(strongRows, LAMBDA x : /\ x.date = p.start_date
                                                  /\ x.exercise = p.exercise
                                                  /\ x.note.present)
    IN IF noted = <<>> THEN <<>>
       ELSE SelectSeq(noted[1].note.entries, LAMBDA en : en.set = p.set_order)

\* C12: every set of the log is returned, and a set whose RPE column is present
\* and strictly positive gets that value as final_rpe, whatever the note of
\* its exercise group says for its set number.
C12_ExplicitRpeWins ==
    xpc = "parsed" =>
        /\ Len(processed_rows) = Len(strongRows)
        /\ \A i \in 1..Len(processed_rows) :
              ExplicitRpe(processed_rows[i]) =>
                  processed_rows[i].final_rpe = processed_rows[i].rpe

\* C12 witness: a set with RPE 8 whose group note has another value for its
\* set number, returned with final_rpe 8.
C12_Witness ==
    /\ xpc = "parsed"
    /\ \E i \in 1..Len(processed_rows) :
          /\ ExplicitRpe(processed_rows[i])
          /\ GroupEntries(processed_rows[i]) # <<>>
          /\ \A k \in 1..Len(GroupEntries(processed_rows[i])) :
                Numeric(GroupEntries(processed_rows[i])[k].value) # processed_rows[i].rpe
          /\ processed_rows[i].final_rpe = Whole(8)

\* C13: a set whose RPE column is missing, zero or negative gets the value of
\* an entry of its group's note for its set number, and no value at all (not 0)
\* when the note has no entry for that number.
C13_NoteRpeOtherwise ==
    xpc = "parsed" =>
        \A i \in 1..Len(processed_rows) :
            LET p == processed_rows[i]
            IN ~ExplicitRpe(p) =>
                  IF GroupEntries(p) = <<>>
                  THEN p.final_rpe = NonNumeric
                  ELSE p.final_rpe \in {Numeric(GroupEntries(p)[k].value) :
                                           k \in 1..Len(GroupEntries(p))}

\* C13 witness: set 2 with RPE 0 and the note 'Set 2 RPE = 7.5' gets 7.5, and a
\* set of the same log without an entry for its number gets no value.
C13_Witness ==
    /\ xpc = "parsed"
    /\ \E i, j \in 1..Len(processed_rows) :
          /\ processed_rows[i].rpe = Whole(0)
          /\ processed_rows[i].set_order = 2
          /\ processed_rows[i].final_rpe = Numeric(15)
          /\ ~ExplicitRpe(processed_rows[j])
          /\ GroupEntries(processed_rows[j]) = <<>>
          /\ processed_rows[j].final_rpe = NonNumeric

\* C14: the upsert replaces and never accumulates.  After load_data_to_db
\* succeeds, every date of the merged table holds exactly the merged table's
\* seven values whatever it held before and the other dates are as before; a
\* second successful load of the same table leaves daily_summaries identical.
C14_UpsertReplaces ==
    (dload.calls > 0 /\ ~dload.error) =>
        /\ DOMAIN daily_summaries = DOMAIN pre.daily_summaries \cup DatesOf(dload.df)
        /\ \A d \in DOMAIN daily_summaries :
              IF d \in DatesOf(dload.df)
              THEN \A i \in 1..Len(dload.df.rows) :
                      dload.df.rows[i]["Date"] = d =>
                          \A c \in Range(MetricColumns) :
                              daily_summaries[d][c] = dload.df.rows[i][c]
              ELSE daily_summaries[d] = pre.daily_summaries[d]
        /\ (dload.calls = 2 /\ ~dload.prevError) => daily_summaries = pre.daily_summaries

\* C14 witness: the table of two dates was loaded twice with success; the row
\* of day 0 held other values before the first load and the table after the
\* second load is the table after the first.
C14_Witness ==
    /\ dload.calls = 2
    /\ ~dload.error /\ ~dload.prevError
    /\ Len(dload.df.rows) = 2
    /\ daily_summaries = pre.daily_summaries
    /\ daily_summaries[0] # EarlierSummary[0]
    /\ \A c \in Range(MetricColumns) : daily_summaries[0][c] > 0

\* the (session start, exercise, set number) keys of parsed sets
SetKeys(strong_df) ==
    {<<strong_df[i].start_date, strong_df[i].exercise, strong_df[i].set_order>> :
        i \in 1..Len(strong_df)}

\* the second call follows a successful first call and succeeds itself
LoadedTwice == wload.calls = 2 /\ ~wload.error /\ ~wload.prevError

\* the second call gets the sessions and sets of the first
SameLoadInput == wload.apple = wload.prevApple /\ wload.strong = wload.prevStrong

\* the second call gets the sessions and sets of the first and one more set,
\* whose key is new
OneMoreSet ==
    /\ wload.apple = wload.prevApple
    /\ Len(wload.strong) = Len(wload.prevStrong) + 1
    /\ SubSeq(wload.strong, 1, Len(wload.prevStrong)) = wload.prevStrong
    /\ SetKeys(wload.strong) # SetKeys(wload.prevStrong)

\* C15: load_workouts_to_db run twice on the same parsed sessions and sets
\* leaves workouts and workout_details exactly as after the first run; a re-run
\* with an additional set of a new key leaves every earlier row as it was and
\* adds only rows of the new key.
C15_WorkoutLoadIdempotent ==
    LoadedTwice =>
        /\ SameLoadInput =>
              workouts = pre.workouts /\ workout_details = pre.workout_details
        /\ OneMoreSet =>
              /\ workouts = pre.workouts
              /\ Len(workout_details) >= Len(pre.workout_details)
              /\ SubSeq(workout_details, 1, Len(pre.workout_details)) = pre.workout_details
              /\ \A i \in (Len(pre.workout_details) + 1)..Len(workout_details) :
                    LET new == wload.strong[Len(wload.strong)]
                    IN /\ workout_details[i].exercise_name = new.exercise
                       /\ workout_details[i].set_order = new.set_order

\* C15 witness: the second call got the inputs of the first, which had written
\* a session and its sets, and left both tables as they were.
C15_Witness ==
    /\ LoadedTwice
    /\ SameLoadInput
    /\ workouts # <<>>
    /\ Len(workout_details) = 2
    /\ workouts = pre.workouts
    /\ workout_details = pre.workout_details

\* row r of workouts is a row for the parsed session w
SameSession(r, w) == r.start_date = w.start_date /\ r.workout_type = w.workout_type

\* the rows of workouts the last call inserted
InsertedWorkouts == SubSeq(workouts, Len(pre.workouts) + 1, Len(workouts))

\* C16: after a successful load, the rows workouts held before are all there
\* with every column as before, also when a parsed session of the same
\* (start_date, workout_type) carries other values; a parsed session is
\* inserted, once, exactly when no row had its (start_date, workout_type) when
\* the load came to it, and the inserted row holds its values.
C16_SessionInsertedOnce ==
    (wload.calls > 0 /\ ~wload.error) =>
        /\ Len(workouts) >= Len(pre.workouts)
        /\ SubSeq(workouts, 1, Len(pre.workouts)) = pre.workouts
        /\ \A i \in 1..Len(wload.apple) :
              LET w == wload.apple[i]
                  known == \E k \in 1..Len(pre.workouts) : SameSession(pre.workouts[k], w)
                  earlier == \E j \in 1..(i - 1) : SameSession(wload.apple[j], w)
                  rows == SelectSeq(InsertedWorkouts, LAMBDA r : SameSession(r, w))
              IN /\ known => rows = <<>>
                 /\ ~known => Len(rows) = 1
                 /\ (~known /\ ~earlier) =>
                       rows[1] = [workout_id |-> rows[1].workout_id] @@ w

\* C16 witness: the second load parsed the session of day 0 with another
\* duration and energy than the persisted row has; the row is unchanged and no
\* row was inserted.
C16_Witness ==
    /\ LoadedTwice
    /\ Len(pre.workouts) = 1
    /\ pre.workouts[1].duration_mins = 60
    /\ \E i \in 1..Len(wload.apple) :
          /\ SameSession(pre.workouts[1], wload.apple[i])
          /\ wload.apple[i].duration_mins = 75
    /\ workouts = pre.workouts

(***************************************************************************)
(* Claims about the watermark (Spec).                                      *)
(***************************************************************************)
\* the run got past get_last_run_timestamp (its connection was opened)
WatermarkRead == run.outcome # "none" /\ ~(run.outcome = "raised" /\ ~run.found)

\* some export file existed when the run started
AnyFileAtStart == run.missing # {"apple", "strong", "macro"}

NextWatermark == get_last_run_timestamp(pipeline_runs, TRUE)

\* C28: no change to an export file is lost.  A file written while a run was
\* in progress, after the run had read the exports and before it recorded its
\* watermark, is newer than the watermark the next run compares it with, so
\* that run finds it new.
C28_NoChangeLost ==
    (pc = "idle" /\ run.lateChange) => find_new_files(fs, NextWatermark)

\* C29: a run that processed new files and reported 'Pipeline finished
\* successfully' has appended exactly one row to pipeline_runs.
C29_SuccessMeansRecorded ==
    (pc = "idle" /\ run.outcome = "success") =>
        /\ run.recorded
        /\ Len(pipeline_runs) = Len(pre.pipeline_runs) + 1
        /\ SubSeq(pipeline_runs, 1, Len(pre.pipeline_runs)) = pre.pipeline_runs

(***************************************************************************)
(* Further claims about load_workouts_to_db (SpecLoad).                    *)
(***************************************************************************)
\* the persisted strength sessions of the calendar date of parsed set s
SessionsOfDay(s) ==
    {workouts[i].workout_id : i \in {k \in 1..Len(workouts) :
         /\ DayOf(workouts[k].start_date) = DayOf(s.start_date)
         /\ workouts[k].workout_type = StrengthType}}

\* C22: after a successful load, every parsed set whose calendar date and the
\* strength type match a persisted session has a row in workout_details under
\* that session, also when the two timestamps of the day differ.
C22_SetsAttachedByDate ==
    (wload.calls > 0 /\ ~wload.error) =>
        \A i \in 1..Len(wload.strong) :
            \A id \in SessionsOfDay(wload.strong[i]) :
                \E k \in 1..Len(workout_details) :
                    /\ workout_details[k].workout_id = id
                    /\ workout_details[k].exercise_name = wload.strong[i].exercise
                    /\ workout_details[k].set_order = wload.strong[i].set_order

\* the uniqueness key of a row of workout_details, and of a parsed set
DetailKey(r) == <<r.workout_id, r.exercise_name, r.set_order>>
ParsedKey(s) == <<SessionAt(workouts, s.start_date), s.exercise, s.set_order>>

\* the parsed sets of the last call that found their session, in the order the
\* call processed them
AttachedSets ==
    SelectSeq(OrderedSets(wload.strong), LAMBDA s : SessionAt(workouts, s.start_date) # 0)

\* C23: after a successful load (the tables were empty before the first),
\* workout_details holds at most one row per (workout_id, exercise_name,
\* set_order); a row whose key the call processed carries the weight, reps and
\* effort of the last set processed for the key, and any other row was there
\* before the call.
C23_OneRowPerSetKey ==
    (wload.calls > 0 /\ ~wload.error) =>
        /\ \A i, j \in 1..Len(workout_details) :
              DetailKey(workout_details[i]) = DetailKey(workout_details[j]) => i = j
        /\ \A i \in 1..Len(workout_details) :
              LET r == workout_details[i]
                  hits == SelectSeq(AttachedSets, LAMBDA s : ParsedKey(s) = DetailKey(r))
              IN IF hits # <<>>
                 THEN /\ r.weight = hits[Len(hits)].weight
                      /\ r.reps = hits[Len(hits)].reps
                      /\ r.rpe = hits[Len(hits)].final_rpe
                 ELSE r \in Range(pre.workout_details)

\* C23 witness: one export lists set 1 of the squat twice, with 60 and then
\* with 70; the one row of the key holds 70.
C23_Witness ==
    /\ wload.calls = 1
    /\ ~wload.error
    /\ Len(wload.strong) = 2
    /\ ParsedKey(wload.strong[1]) = ParsedKey(wload.strong[2])
    /\ wload.strong[1].weight = Whole(60)
    /\ wload.strong[2].weight = Whole(70)
    /\ Len(workout_details) = 1
    /\ workout_details[1].weight = Whole(70)

\* C24: after any sequence of loads starting from an empty table, workouts
\* holds at most one row per (start_date, workout_type).
C24_OneRowPerSession ==
    \A i, j \in 1..Len(workouts) : SameSession(workouts[i], workouts[j]) => i = j

\* C24 witness: one export lists the session of day 0 twice, with different
\* durations; the load inserted the first listing of the session only.
C24_Witness ==
    /\ wload.calls = 1
    /\ ~wload.error
    /\ Len(wload.apple) = 2
    /\ SameSession(wload.apple[1], wload.apple[2])
    /\ wload.apple[1] # wload.apple[2]
    /\ Len(workouts) = 1
    /\ workouts[1] = [workout_id |-> 1] @@ wload.apple[1]

\* C30: no call deletes persisted data.  Every row of workouts stays as it
\* was; every row of workout_details stays under its key, and as it was when
\* the parsed input has no set of its key; every row of daily_summaries stays,
\* and as it was when the merged table has no row of its date.
C30_NothingDeleted ==
    /\ wload.calls > 0 =>
          /\ Len(workouts) >= Len(pre.workouts)
          /\ SubSeq(workouts, 1, Len(pre.workouts)) = pre.workouts
          /\ Len(workout_details) >= Len(pre.workout_details)
          /\ \A i \in 1..Len(pre.workout_details) :
                /\ DetailKey(workout_details[i]) = DetailKey(pre.workout_details[i])
                /\ (\A k \in 1..Len(wload.strong) :
                       ParsedKey(wload.strong[k]) # DetailKey(pre.workout_details[i]))
                   => workout_details[i] = pre.workout_details[i]
    /\ dload.calls > 0 =>
          \A d \in DOMAIN pre.daily_summaries :
              /\ d \in DOMAIN daily_summaries
              /\ d \notin DatesOf(dload.df) => daily_summaries[d] = pre.daily_summaries[d]

\* C30 witness: the first call persisted a session and two sets; the export of
\* the second call no longer holds the older set, the call succeeded, and the
\* session and both sets are still in the tables.
C30_Witness ==
    /\ LoadedTwice
    /\ Len(pre.workouts) = 1
    /\ Len(pre.workout_details) = 2
    /\ wload.apple = wload.prevApple
    /\ Len(wload.strong) = 1
    /\ Len(wload.prevStrong) = 2
    /\ ParsedKey(wload.strong[1]) # DetailKey(pre.workout_details[1])
    /\ workouts = pre.workouts
    /\ workout_details = pre.workout_details

(***************************************************************************)
(* Claims about the parsers.                                               *)
(***************************************************************************)
\* the rows of the Strong log whose Date parses
ReadableSets(data) == SelectSeq(data, LAMBDA r : r.date # BadDate)

\* C25 (SpecMerge): a record with an unparseable field is dropped on its own.
\* The table parse_strong_summary computes from a log is the table it computes
\* from the rows of the log whose Date parses.
C25_BadRecordDroppedAlone ==
    mpc = "unified" =>
        parse_strong_summary(mStrong)
            = parse_strong_summary([mStrong EXCEPT !.data = ReadableSets(@)])

\* the sum of the numeric values of the de-duplicated samples that end on day d
EndDaySum(d) ==
    SumSeq([i \in 1..Len(clean) |->
               IF clean[i].value.isNum /\ DayOf(clean[i].endDate) = d
               THEN clean[i].value.n ELSE 0])

\* C26 (SpecSteps): for every calendar day d, aggregate_daily_data outputs one
\* row for d exactly when the sum of the numeric values of the samples that end
\* on d is positive, and the row holds the integer part of that sum; a sample
\* that starts the day before counts for d, a non-numeric value adds nothing.
C26_SumByEndDay ==
    fpc = "aggregated" =>
        /\ \A d \in 0..MaxTick : d \in DatesOf(stepsDf) <=> EndDaySum(d) > 0
        /\ \A i, j \in 1..Len(stepsDf.rows) :
              stepsDf.rows[i]["Date"] = stepsDf.rows[j]["Date"] => i = j
        /\ \A i \in 1..Len(stepsDf.rows) :
              stepsDf.rows[i]["TotalSteps"] = EndDaySum(stepsDf.rows[i]["Date"]) \div Scale

\* C26 witness: a sample of the morning of day 0 without a numeric value, a
\* sample of 1.5 steps from noon of day 0 to midnight and a sample of 10 steps
\* ending on day 1 were all accepted; the table holds the one row (day 1, 11).
C26_Witness ==
    /\ fpc = "aggregated"
    /\ Len(clean) = 3
    /\ \E i \in 1..3 : ~clean[i].value.isNum
    /\ \E i \in 1..3 : /\ clean[i].value = Numeric(Scale + 1)
                       /\ DayOf(clean[i].startDate) = 0
                       /\ DayOf(clean[i].endDate) = 1
    /\ stepsDf.rows = <<("Date" :> 1) @@ ("TotalSteps" :> 11)>>

\* the first note present among the rows of a (date, exercise) group of the log
FirstNoteOf(date, exercise) ==
    LET noted == SelectSeq(strongRows, LAMBDA x : /\ x.date = date
                                                  /\ x.exercise = exercise
                                                  /\ x.note.present)
    IN IF noted = <<>> THEN NoNote ELSE noted[1].note

\* what a note says for set number n: its last entry for n, or nothing
NoteValue(note, n) ==
    LET es == SelectSeq(note.entries, LAMBDA en : en.set = n)
    IN IF es = <<>> THEN NonNumeric ELSE Numeric(es[Len(es)].value)

\* C27 (SpecExtract): all sets of a (session timestamp, exercise) group are
\* resolved against the first non-empty note of the group: a set without a
\* positive RPE gets what that note says for its number, whichever row the
\* note is on, and nothing from any other note of the group.
C27_OneNotePerGroup ==
    xpc = "parsed" =>
        \A i \in 1..Len(processed_rows) :
            LET p == processed_rows[i]
            IN ~ExplicitRpe(p) =>
                  p.final_rpe = NoteValue(FirstNoteOf(p.start_date, p.exercise), p.set_order)

\* C27 witness: set 2 without a note comes first and takes its value from the
\* note on the row after it.
C27_Witness ==
    /\ xpc = "parsed"
    /\ Len(strongRows) = 2
    /\ strongRows[1].exercise = strongRows[2].exercise
    /\ ~strongRows[1].note.present
    /\ strongRows[1].set_order = 2
    /\ ~ExplicitRpe(strongRows[1])
    /\ strongRows[2].note = NoteOf(<<[set |-> 2, value |-> 15]>>)
    /\ processed_rows[1].final_rpe = Numeric(15)

====
